---- MODULE Spec2Model ----
(***************************************************************************)
(* Model of the two upload handlers of handler_upload_video.go:            *)
(* handlerUploadVideo and handlerUploadThumbnail, with the record store,   *)
(* the object-store bucket, the temporary directory and the assets         *)
(* directory they act on.  Requests are served concurrently (net/http runs *)
(* one goroutine per request), so each handler is cut into steps at the    *)
(* points where it touches state shared with other requests.               *)
(***************************************************************************)
EXTENDS Integers, Sequences, FiniteSets, TLC

VARIABLES
    db,        \* record store: video id -> video record (cfg.db)
    bucket,    \* object store: set of objects put (cfg.s3Client, cfg.s3Bucket)
    disk,      \* temporary directory: path -> content
    assets,    \* assets directory (cfg.assetsRoot): path -> content
    req,       \* per request: position in its handler, inputs, locals, response
    probe      \* input and result of a stand-alone getVideoAspectRatio run

vars == <<db, bucket, disk, assets, req, probe>>

(***************************************************************************)
(* Bounds                                                                  *)
(***************************************************************************)
MaxRequests == 2      \* requests served, all of which may overlap
MaxDim == 20          \* stream widths and heights 0..MaxDim (plus Landmarks)

\* net/http serves each request on a goroutine of its own
Requests == 1 .. MaxRequests

(***************************************************************************)
(* HTTP status codes used by the handlers                                  *)
(***************************************************************************)
StatusOK == 200
StatusBadRequest == 400
StatusUnauthorized == 401
StatusInternalServerError == 500

(***************************************************************************)
(* Configuration (apiConfig)                                               *)
(***************************************************************************)
s3Bucket == "tubely-bucket"
s3Region == "us-east-2"
assetsRoot == "./assets"
port == "8091"

Nil == "<nil>"        \* a nil *string

\* database.Video: the zero value, returned beside an error
NoVideo == [ID |-> "", UserID |-> "", VideoURL |-> Nil, ThumbnailURL |-> Nil]

\* the state of a request that has not arrived; refused is the file part the
\* intake turned down, calls the collaborator calls made so far
NoPart == [form |-> "", contentType |-> "", large |-> FALSE]
NoResp == [status |-> 0, msg |-> "", body |-> NoVideo]
IdleReq ==
    [pc |-> "idle", handler |-> "none",
     videoIDString |-> "", authorization |-> "",
     userID |-> "", video |-> NoVideo, refused |-> NoPart, mediaType |-> "",
     tempFile |-> "", processedFilePath |-> "", aspectRatio |-> "",
     fileKey |-> "", filePath |-> "", thumbnailURL |-> "",
     randomBytes |-> "", spool |-> "",
     resp |-> NoResp, calls |-> {}]

(***************************************************************************)
(* Request inputs                                                          *)
(***************************************************************************)
\* the videoID path value: the stored video, a well-formed id of no stored
\* video, and a string that is no UUID
VideoIDStrings == {"v1", "v9", "not-a-uuid"}
\* the Authorization header: absent, a token that fails validation, and the
\* tokens of two users
AuthHeaders == {"", "Bearer expired", "Bearer tok-u1", "Bearer tok-u2"}
\* the requests sent: every header with the id of the stored record, the
\* owner's token with the other two ids, and no header with the malformed id
Calls ==
    { c \in VideoIDStrings \X AuthHeaders :
        \/ c[1] = "v1"
        \/ c[2] = "Bearer tok-u1"
        \/ c[1] = "not-a-uuid" /\ c[2] = "" }

\* the file parts sent: the Content-Type header as written by the client,
\* as the type/subtype text and the parameter text after it, and whether the
\* file is more than the multipart parser keeps in memory (32 MiB at line
\* 112, 10 MiB at line 235): the videos and the GIF are, the other images
\* are not
ContentTypes ==
    { [base |-> "",           param |-> "",               large |-> FALSE],
      [base |-> "video/mp4",  param |-> "",               large |-> TRUE],
      [base |-> "Video/MP4",  param |-> "; codecs=avc1",  large |-> TRUE],
      [base |-> "video/mp4",  param |-> "; =",            large |-> FALSE],
      [base |-> "image/jpeg", param |-> "",               large |-> FALSE],
      [base |-> "image/png",  param |-> "",               large |-> FALSE],
      [base |-> "IMAGE/PNG",  param |-> "; name=a",       large |-> FALSE],
      [base |-> "image/gif",  param |-> "",               large |-> TRUE] }
\* the request's form, by how far r.ParseMultipartForm and r.FormFile get:
\* "malformed" is a body that does not parse (or is over the size limit);
\* "query" a URL query that r.ParseForm rejects, with a body that parses;
\* "absent" a body without the named part; "unreadable" a body whose named
\* part is in a file of the parser that cannot be opened again; "present" a
\* body whose named part is opened
Parts ==
    { [form |-> "malformed", contentType |-> "", large |-> FALSE],
      [form |-> "query", contentType |-> "video/mp4", large |-> TRUE],
      [form |-> "absent", contentType |-> "", large |-> FALSE],
      [form |-> "unreadable", contentType |-> "video/mp4", large |-> TRUE] }
    \cup { [form |-> "present", contentType |-> c.base \o c.param, large |-> c.large] :
              c \in ContentTypes }
\* the bodies sent with each call: every body by the owner of the stored
\* record, a PNG or the GIF by a caller who is not the owner or who names no
\* stored record
PartsOf(videoIDString, userID) ==
    IF videoIDString = "v1" /\ userID = "u1" THEN Parts
    ELSE { part \in Parts : part.contentType \in {"image/png", "image/gif"} }

\* rand.Read: the draws of different requests differ; request n draws the
\* byte n, 16 or 32 times over
RandomByte(n) == "0" \o ToString(n)

(***************************************************************************)
(* Collaborators outside this file                                         *)
(***************************************************************************)
\* uuid.Parse: err for a string that is no UUID
uuidParse(s) ==
    IF s = "not-a-uuid" THEN [id |-> "", err |-> TRUE] ELSE [id |-> s, err |-> FALSE]

\* auth.GetBearerToken: the token after "Bearer ", err when the header is absent
GetBearerToken(header) ==
    CASE header = "Bearer expired" -> [token |-> "expired", err |-> FALSE]
      [] header = "Bearer tok-u1"  -> [token |-> "tok-u1", err |-> FALSE]
      [] header = "Bearer tok-u2"  -> [token |-> "tok-u2", err |-> FALSE]
      [] OTHER                     -> [token |-> "", err |-> TRUE]

\* auth.ValidateJWT: the subject of a valid token, err otherwise
ValidateJWT(token) ==
    CASE token = "tok-u1" -> [userID |-> "u1", err |-> FALSE]
      [] token = "tok-u2" -> [userID |-> "u2", err |-> FALSE]
      [] OTHER            -> [userID |-> "", err |-> TRUE]

\* cfg.db.GetVideo: the stored record, or an error when there is none
GetVideo(store, videoID) ==
    IF videoID \in DOMAIN store
    THEN [video |-> store[videoID], err |-> FALSE]
    ELSE [video |-> NoVideo, err |-> TRUE]

\* cfg.db.UpdateVideo: overwrites the stored record of video.ID with video
UpdateVideo(store, video) ==
    [store EXCEPT ![video.ID] = video]

(***************************************************************************)
(* mime.ParseMediaType, on the Content-Type headers above and on no other  *)
(* text: the tables below list exactly those headers                       *)
(***************************************************************************)
\* strings.Cut(v, ";"): the text before the first ";" and the text from it on
CutParams(contentType) ==
    CASE contentType = ""                       -> [base |-> "", rest |-> ""]
      [] contentType = "video/mp4"              -> [base |-> "video/mp4", rest |-> ""]
      [] contentType = "Video/MP4; codecs=avc1" -> [base |-> "Video/MP4", rest |-> "; codecs=avc1"]
      [] contentType = "video/mp4; ="           -> [base |-> "video/mp4", rest |-> "; ="]
      [] contentType = "image/jpeg"             -> [base |-> "image/jpeg", rest |-> ""]
      [] contentType = "image/png"              -> [base |-> "image/png", rest |-> ""]
      [] contentType = "IMAGE/PNG; name=a"      -> [base |-> "IMAGE/PNG", rest |-> "; name=a"]
      [] contentType = "image/gif"              -> [base |-> "image/gif", rest |-> ""]

\* strings.TrimSpace(strings.ToLower(base)) on the type/subtype texts
ToLower(s) ==
    CASE s = ""           -> ""
      [] s = "video/mp4"  -> "video/mp4"
      [] s = "Video/MP4"  -> "video/mp4"
      [] s = "image/jpeg" -> "image/jpeg"
      [] s = "image/png"  -> "image/png"
      [] s = "IMAGE/PNG"  -> "image/png"
      [] s = "image/gif"  -> "image/gif"

\* consumeMediaParam over the parameter texts: whether each parameter has a
\* name and a value
ParamsWellFormed(rest) ==
    CASE rest = ""               -> TRUE
      [] rest = "; codecs=avc1"  -> TRUE
      [] rest = "; name=a"       -> TRUE
      [] rest = "; ="            -> FALSE

\* the lower-cased type; "mime: no media type" and no type for an empty
\* one; the type beside ErrInvalidMediaParameter for a parameter without a
\* name
ParseMediaType(contentType) ==
    LET cut == CutParams(contentType)
        mediatype == ToLower(cut.base)
    IN  IF mediatype = "" THEN [mediaType |-> "", err |-> TRUE]
        ELSE IF ~ParamsWellFormed(cut.rest) THEN [mediaType |-> mediatype, err |-> TRUE]
        ELSE [mediaType |-> mediatype, err |-> FALSE]

(***************************************************************************)
(* getVideoAspectRatio                                                     *)
(***************************************************************************)
\* width/height > 1.0 in float64: +Inf for a positive width over 0, NaN
\* (every comparison false) for 0/0
RatioGtOne(w, h) ==
    IF h = 0 THEN w > 0 ELSE IF h > 0 THEN w > h ELSE w < h

Abs(x) == IF x < 0 THEN -x ELSE x

\* |width/height - num/den| < 0.01, false when the ratio is Inf or NaN
RatioNear(w, h, num, den) ==
    h # 0 /\ 100 * Abs(den * w - num * h) < den * Abs(h)

\* ClassifyStreams with the ratio taken as height over width
ClassifyStreams_Swapped(streams) ==
    IF Len(streams) = 0 THEN "other"
    ELSE LET width == streams[1].Height
             height == streams[1].Width
         IN  IF RatioGtOne(width, height)
             THEN IF RatioNear(width, height, 16, 9) THEN "landscape" ELSE "other"
             ELSE IF RatioNear(width, height, 9, 16) THEN "portrait" ELSE "other"

\* the classification of the streams ffprobe reported (lines 43-66)
ClassifyStreams(streams) ==
    IF Len(streams) = 0 THEN "other"
    ELSE LET width == streams[1].Width
             height == streams[1].Height
         IN  IF RatioGtOne(width, height)
             THEN IF RatioNear(width, height, 16, 9) THEN "landscape" ELSE "other"
             ELSE IF RatioNear(width, height, 9, 16) THEN "portrait" ELSE "other"

\* run: how ffprobe ended ("ok", "exit" for a failed run, "garbage" for
\* output that is no JSON); streams: what it reported
getVideoAspectRatio(run, streams) ==
    IF run = "exit" THEN [aspectRatio |-> "", err |-> TRUE]
    ELSE IF run = "garbage" THEN [aspectRatio |-> "", err |-> TRUE]
    ELSE [aspectRatio |-> ClassifyStreams(streams), err |-> FALSE]

Stream(w, h) == [Width |-> w, Height |-> h]

(***************************************************************************)
(* Formatting                                                              *)
(***************************************************************************)
RECURSIVE Repeat(_, _)
Repeat(s, n) == IF n = 0 THEN "" ELSE s \o Repeat(s, n - 1)

\* fmt "%x" of 16 equal bytes: 32 hex digits
Hex16(b) == Repeat(b, 16)

\* base64.RawURLEncoding of 32 equal bytes: 43 characters, no padding
RawURLEncoding32(b) ==
    CASE b = "01" -> Repeat("AQEB", 10) \o "AQE"
      [] b = "02" -> Repeat("AgIC", 10) \o "AgI"
      [] b = "03" -> Repeat("AwMD", 10) \o "AwM"
      [] b = "04" -> Repeat("BAQE", 10) \o "BAQ"

\* fmt.Sprintf("%s/%x.mp4", aspectRatio, randomBytes)
FileKey(aspectRatio, randomBytes) ==
    aspectRatio \o "/" \o Hex16(randomBytes) \o ".mp4"

\* VideoURL with the region and the bucket in each other's place
VideoURL_Swapped(fileKey) ==
    "https://" \o s3Region \o ".s3." \o s3Bucket \o ".amazonaws.com/" \o fileKey

\* fmt.Sprintf("https://%s.s3.%s.amazonaws.com/%s", cfg.s3Bucket, cfg.s3Region, fileKey)
VideoURL(fileKey) ==
    "https://" \o s3Bucket \o ".s3." \o s3Region \o ".amazonaws.com/" \o fileKey

\* the switch on mediaType that picks the thumbnail's extension
Extension(mediaType) ==
    CASE mediaType = "image/jpeg" -> ".jpg"
      [] mediaType = "image/png"  -> ".png"
      [] OTHER -> ""

\* filepath.Clean, as filepath.Join applies it: a leading "./" goes
Clean(path) ==
    CASE path = "./assets" -> "assets"
      [] OTHER -> path

\* filepath.Join(cfg.assetsRoot, fmt.Sprintf("%s%s", randomFileName, extension))
AssetPath(randomFileName, extension) ==
    Clean(assetsRoot) \o "/" \o randomFileName \o extension

\* fmt.Sprintf("http://localhost:%s/assets/%s%s", cfg.port, randomFileName, extension)
ThumbnailURL(randomFileName, extension) ==
    "http://localhost:" \o port \o "/assets/" \o randomFileName \o extension

\* os.CreateTemp("", "tubely-upload-*.mp4"): a name no file has; the random
\* part is taken to be the request's number, so no name is handed out twice
TempName(seq) == "/tmp/tubely-upload-" \o ToString(seq) \o ".mp4"

(***************************************************************************)
(* Files and responses                                                     *)
(***************************************************************************)
NoFiles == [x \in {} |-> ""]
WriteFile(dir, path, content) == [x \in DOMAIN dir \cup {path} |-> IF x = path THEN content ELSE dir[x]]
RemoveFile(dir, path) == [x \in DOMAIN dir \ {path} |-> dir[x]]

\* the multipart parser (r.FormFile at line 112, r.ParseMultipartForm at
\* line 235) writes a file larger than its memory limit to a file
\* "multipart-*" of the temporary directory; the random part is taken to be
\* the request's number
SpoolName(seq) == "/tmp/multipart-" \o ToString(seq)

\* the parser's effect on the temporary directory once it has returned: a
\* large file of a body that parsed is on disk, also when the parser returns
\* the error of the URL query; a body that did not parse has had its files
\* removed by the parser
ParseMultipartForm(dir, part, seq) ==
    IF part.form # "malformed" /\ part.large
    THEN [dir |-> WriteFile(dir, SpoolName(seq), "upload"), spool |-> SpoolName(seq)]
    ELSE [dir |-> dir, spool |-> ""]

\* where a request is once the handler has returned and its deferred calls
\* have run: the server removes the files of r.MultipartForm, if there are any
AfterDefers(r) == IF r.spool # "" THEN "finish" ELSE "done"

\* where a handler is once it has written its response and returns: at the
\* deferred os.Remove calls that were registered, last registered first
\* (line 154, then line 136)
AfterReturn(r) ==
    IF r.processedFilePath # "" THEN "v_remove_processed"
    ELSE IF r.tempFile # "" THEN "v_remove_temp"
    ELSE AfterDefers(r)

\* net/http, once the handler has returned: r.MultipartForm.RemoveAll()
\* removes the file the parser wrote at line 112 or 235
finishRequest(p) ==
    /\ req[p].pc = "finish"
    /\ disk' = RemoveFile(disk, req[p].spool)
    /\ req' = [req EXCEPT ![p].pc = "done"]
    /\ UNCHANGED <<db, bucket, assets, probe>>

\* respondWithError: the handler returns right after it
respondWithError(r, status, msg) ==
    [r EXCEPT !.pc = AfterReturn(r),
              !.resp = [status |-> status, msg |-> msg, body |-> NoVideo]]

\* respondWithJSON(w, http.StatusOK, video)
respondWithJSON(r, status, video) ==
    [r EXCEPT !.pc = AfterReturn(r),
              !.resp = [status |-> status, msg |-> "", body |-> video]]

\* requests are numbered in the order they arrive
Arrived(n) == IF n = 0 THEN TRUE ELSE req[n].pc # "idle"

(***************************************************************************)
(* handlerUploadVideo                                                      *)
(***************************************************************************)
\* VideoAuthGate without the check of ValidateJWT's error
VideoAuthGate_NoJWTCheck(videoIDString, authorization) ==
    LET id == uuidParse(videoIDString)
        tok == GetBearerToken(authorization)
        jwt == ValidateJWT(tok.token)
    IN  IF id.err THEN [status |-> StatusBadRequest, msg |-> "Invalid ID", userID |-> ""]
        ELSE IF tok.err THEN [status |-> StatusUnauthorized, msg |-> "Couldn't find JWT", userID |-> ""]
        ELSE [status |-> 0, msg |-> "", userID |-> jwt.userID]

\* lines 82-99: the id is parsed, then the bearer token is taken from the
\* header and validated; status 0 lets the request through
VideoAuthGate(videoIDString, authorization) ==
    LET id == uuidParse(videoIDString)
        tok == GetBearerToken(authorization)
        jwt == ValidateJWT(tok.token)
    IN  IF id.err THEN [status |-> StatusBadRequest, msg |-> "Invalid ID", userID |-> ""]
        ELSE IF tok.err THEN [status |-> StatusUnauthorized, msg |-> "Couldn't find JWT", userID |-> ""]
        ELSE IF jwt.err THEN [status |-> StatusUnauthorized, msg |-> "Couldn't validate JWT", userID |-> ""]
        ELSE [status |-> 0, msg |-> "", userID |-> jwt.userID]

VideoAuth(p) ==
    /\ req[p].pc = "idle"
    /\ Arrived(p - 1)
    /\ \E call \in Calls :
         LET r == [IdleReq EXCEPT !.handler = "video",
                                  !.videoIDString = call[1], !.authorization = call[2]]
             g == VideoAuthGate(call[1], call[2])
         IN  req' = [req EXCEPT ![p] =
                        IF g.status # 0 THEN respondWithError(r, g.status, g.msg)
                        ELSE [r EXCEPT !.pc = "v_get", !.userID = g.userID]]
    /\ UNCHANGED <<db, bucket, disk, assets, probe>>

\* lines 101-110: the record is fetched and its owner compared with the caller
VideoOwnerGate(store, videoID, userID) ==
    LET got == GetVideo(store, videoID)
    IN  IF got.err
        THEN [status |-> StatusInternalServerError, msg |-> "Couldn't find video", video |-> got.video]
        ELSE IF got.video.UserID # userID
        THEN [status |-> StatusUnauthorized, msg |-> "Not authorized to upload for this video", video |-> got.video]
        ELSE [status |-> 0, msg |-> "", video |-> got.video]

VideoGetVideo(p) ==
    /\ req[p].pc = "v_get"
    /\ LET r == req[p]
           g == VideoOwnerGate(db, uuidParse(r.videoIDString).id, r.userID)
           r1 == [r EXCEPT !.video = g.video]
       IN  req' = [req EXCEPT ![p] =
                      IF g.status # 0 THEN respondWithError(r1, g.status, g.msg)
                      ELSE [r1 EXCEPT !.pc = "v_intake"]]
    /\ UNCHANGED <<db, bucket, disk, assets, probe>>

\* lines 112-129: the "video" part, its Content-Type and its media type
VideoIntakeGate(part) ==
    LET parsed == ParseMediaType(part.contentType)
    IN  IF part.form # "present"
        THEN [status |-> StatusBadRequest, msg |-> "Unable to parse video file", mediaType |-> ""]
        ELSE IF part.contentType = ""
        THEN [status |-> StatusBadRequest, msg |-> "Missing Content-Type for video", mediaType |-> ""]
        ELSE IF parsed.err \/ parsed.mediaType # "video/mp4"
        THEN [status |-> StatusBadRequest, msg |-> "Invalid file type. Only MP4 videos are allowed.", mediaType |-> parsed.mediaType]
        ELSE [status |-> 0, msg |-> "", mediaType |-> parsed.mediaType]

VideoIntake(p) ==
    /\ req[p].pc = "v_intake"
    /\ \E part \in PartsOf(req[p].videoIDString, req[p].userID) :
         LET g == VideoIntakeGate(part)
             form == ParseMultipartForm(disk, part, p)
             r == [req[p] EXCEPT !.refused = IF g.status # 0 THEN part ELSE NoPart,
                                 !.mediaType = g.mediaType,
                                 !.spool = form.spool]
         IN  /\ req' = [req EXCEPT ![p] =
                           IF g.status # 0 THEN respondWithError(r, g.status, g.msg)
                           ELSE [r EXCEPT !.pc = "v_stage"]]
             /\ disk' = form.dir
    /\ UNCHANGED <<db, bucket, assets, probe>>

\* lines 131-137: os.CreateTemp makes an empty file, whose deferred Remove
\* is registered
VideoStage(p) ==
    /\ req[p].pc = "v_stage"
    /\ \E outcome \in {"create fails", "ok"} :
         LET r == req[p]
             name == TempName(p)
         IN  CASE outcome = "create fails" ->
                    /\ req' = [req EXCEPT ![p] = respondWithError(r, StatusInternalServerError, "Failed to create temporary file")]
                    /\ disk' = disk
               [] outcome = "ok" ->
                    /\ req' = [req EXCEPT ![p] = [r EXCEPT !.pc = "v_copy", !.tempFile = name,
                                                           !.calls = @ \cup {"CreateTemp"}]]
                    /\ disk' = WriteFile(disk, name, "")
    /\ UNCHANGED <<db, bucket, assets, probe>>

\* lines 139-147: io.Copy into the temporary file, then Seek to its start
VideoCopy(p) ==
    /\ req[p].pc = "v_copy"
    /\ \E outcome \in {"copy fails", "seek fails", "ok"} :
         LET r == req[p]
         IN  CASE outcome = "copy fails" ->
                    /\ req' = [req EXCEPT ![p] = respondWithError(r, StatusInternalServerError, "Failed to copy video to temporary file")]
                    /\ disk' = WriteFile(disk, r.tempFile, "truncated")
               [] outcome = "seek fails" ->
                    /\ req' = [req EXCEPT ![p] = respondWithError(r, StatusInternalServerError, "Failed to reset file pointer")]
                    /\ disk' = WriteFile(disk, r.tempFile, "upload")
               [] outcome = "ok" ->
                    /\ req' = [req EXCEPT ![p] = [r EXCEPT !.pc = "v_process"]]
                    /\ disk' = WriteFile(disk, r.tempFile, "upload")
    /\ UNCHANGED <<db, bucket, assets, probe>>

\* line 154, deferred: os.Remove(processedFilePath) as the handler returns
VideoRemoveProcessed(p) ==
    /\ req[p].pc = "v_remove_processed"
    /\ disk' = RemoveFile(disk, req[p].processedFilePath)
    /\ req' = [req EXCEPT ![p].pc = "v_remove_temp"]
    /\ UNCHANGED <<db, bucket, assets, probe>>

\* line 136, deferred: os.Remove(tempFile.Name()) as the handler returns
VideoRemoveTemp(p) ==
    /\ req[p].pc = "v_remove_temp"
    /\ disk' = RemoveFile(disk, req[p].tempFile)
    /\ req' = [req EXCEPT ![p].pc = AfterDefers(req[p])]
    /\ UNCHANGED <<db, bucket, assets, probe>>

\* processVideoForFastStart (lines 69-76): ffmpeg writes filePath.processed;
\* a run that fails returns no path, whether or not it left output behind
processVideoForFastStart(dir, filePath, outcome) ==
    LET outputFilePath == filePath \o ".processed"
    IN  CASE outcome = "ok" ->
               [path |-> outputFilePath, err |-> FALSE, dir |-> WriteFile(dir, outputFilePath, "faststart")]
          [] outcome = "fails, no output" ->
               [path |-> "", err |-> TRUE, dir |-> dir]
          [] outcome = "fails, partial output" ->
               [path |-> "", err |-> TRUE, dir |-> WriteFile(dir, outputFilePath, "partial")]

\* lines 149-154
VideoProcess(p) ==
    /\ req[p].pc = "v_process"
    /\ \E outcome \in {"ok", "fails, no output", "fails, partial output"} :
         LET r == req[p]
             out == processVideoForFastStart(disk, r.tempFile, outcome)
             r1 == IF outcome = "fails, no output" THEN r
                   ELSE [r EXCEPT !.calls = @ \cup {"ffmpeg output"}]
         IN  IF out.err
             THEN /\ req' = [req EXCEPT ![p] = respondWithError(r1, StatusInternalServerError, "Failed to process video for fast start")]
                  /\ disk' = out.dir
             ELSE /\ req' = [req EXCEPT ![p] = [r1 EXCEPT !.pc = "v_probe", !.processedFilePath = out.path]]
                  /\ disk' = out.dir
    /\ UNCHANGED <<db, bucket, assets, probe>>

\* what ffprobe may report in a request: no stream, or a 1920x1080 video
ProbeStreams == { <<>>, <<Stream(1920, 1080)>> }

\* lines 156-160: the staged file is probed
VideoProbe(p) ==
    /\ req[p].pc = "v_probe"
    /\ \E run \in {"ok", "exit", "garbage"}, streams \in ProbeStreams :
         LET r == req[p]
             out == getVideoAspectRatio(run, streams)
         IN  IF out.err
             THEN /\ req' = [req EXCEPT ![p] = respondWithError(r, StatusInternalServerError, "Failed to determine video aspect ratio")]
                  /\ disk' = disk
             ELSE /\ req' = [req EXCEPT ![p] = [r EXCEPT !.pc = "v_put", !.aspectRatio = out.aspectRatio]]
                  /\ disk' = disk
    /\ UNCHANGED <<db, bucket, assets, probe>>

\* cfg.s3Client.PutObject: the object under Key is created or replaced
PutObject(objects, key, body, contentType) ==
    [k \in DOMAIN objects \cup {key} |->
        IF k = key THEN [Body |-> body, ContentType |-> contentType] ELSE objects[k]]

\* VideoPut going on to the record update when PutObject fails
VideoPut_IgnorePutError(p) ==
    /\ req[p].pc = "v_put"
    /\ \E outcome \in {"put fails", "ok"} :
         LET r == req[p]
             fileKey == FileKey(r.aspectRatio, RandomByte(p))
             r1 == [r EXCEPT !.randomBytes = RandomByte(p), !.fileKey = fileKey]
         IN  CASE outcome = "put fails" ->
                    /\ req' = [req EXCEPT ![p] = [r1 EXCEPT !.pc = "v_update", !.calls = @ \cup {"PutObject failed"}]]
                    /\ bucket' = bucket
               [] outcome = "ok" ->
                    /\ req' = [req EXCEPT ![p] = [r1 EXCEPT !.pc = "v_update", !.calls = @ \cup {"PutObject"}]]
                    /\ bucket' = PutObject(bucket, fileKey, disk[r.processedFilePath], r.mediaType)
    /\ UNCHANGED <<db, disk, assets, probe>>

\* lines 162-186: the key is drawn, the processed file opened and put
VideoPut(p) ==
    /\ req[p].pc = "v_put"
    /\ \E outcome \in {"rand fails", "open fails", "put fails", "ok"} :
         LET r == req[p]
             fileKey == FileKey(r.aspectRatio, RandomByte(p))
             r1 == [r EXCEPT !.randomBytes = RandomByte(p), !.fileKey = fileKey]
         IN  CASE outcome = "rand fails" ->
                    /\ req' = [req EXCEPT ![p] = respondWithError(r, StatusInternalServerError, "Failed to generate random key")]
                    /\ bucket' = bucket
                    /\ disk' = disk
               [] outcome = "open fails" ->
                    /\ req' = [req EXCEPT ![p] = respondWithError(r1, StatusInternalServerError, "Failed to open processed file")]
                    /\ bucket' = bucket
                    /\ disk' = disk
               [] outcome = "put fails" ->
                    /\ req' = [req EXCEPT ![p] =
                                 respondWithError([r1 EXCEPT !.calls = @ \cup {"PutObject failed"}],
                                                  StatusInternalServerError, "Failed to upload video to S3")]
                    /\ bucket' = bucket
                    /\ disk' = disk
               [] outcome = "ok" ->
                    /\ req' = [req EXCEPT ![p] = [r1 EXCEPT !.pc = "v_update", !.calls = @ \cup {"PutObject"}]]
                    /\ bucket' = PutObject(bucket, fileKey, disk[r.processedFilePath], r.mediaType)
                    /\ disk' = disk
    /\ UNCHANGED <<db, assets, probe>>

\* lines 188-195: the URL is set on the copy fetched at line 101, the whole
\* copy is written back and the response written
VideoUpdate(p) ==
    /\ req[p].pc = "v_update"
    /\ \E outcome \in {"update fails", "ok"} :
         LET r == req[p]
             video == [r.video EXCEPT !.VideoURL = VideoURL(r.fileKey)]
             r1 == [r EXCEPT !.video = video]
         IN  CASE outcome = "update fails" ->
                    /\ req' = [req EXCEPT ![p] =
                                 respondWithError([r1 EXCEPT !.calls = @ \cup {"UpdateVideo failed"}],
                                                  StatusInternalServerError, "Failed to update video metadata")]
                    /\ db' = db
               [] outcome = "ok" ->
                    /\ req' = [req EXCEPT ![p] =
                                 respondWithJSON([r1 EXCEPT !.calls = @ \cup {"UpdateVideo"}], StatusOK, video)]
                    /\ db' = UpdateVideo(db, video)
    /\ UNCHANGED <<bucket, disk, assets, probe>>

(***************************************************************************)
(* handlerUploadThumbnail                                                  *)
(***************************************************************************)
\* lines 215-232
ThumbAuthGate(videoIDString, authorization) ==
    LET id == uuidParse(videoIDString)
        tok == GetBearerToken(authorization)
        jwt == ValidateJWT(tok.token)
    IN  IF id.err THEN [status |-> StatusBadRequest, msg |-> "Invalid ID", userID |-> ""]
        ELSE IF tok.err THEN [status |-> StatusUnauthorized, msg |-> "Couldn't find JWT", userID |-> ""]
        ELSE IF jwt.err THEN [status |-> StatusUnauthorized, msg |-> "Couldn't validate JWT", userID |-> ""]
        ELSE [status |-> 0, msg |-> "", userID |-> jwt.userID]

ThumbAuth(p) ==
    /\ req[p].pc = "idle"
    /\ Arrived(p - 1)
    /\ \E call \in Calls :
         LET r == [IdleReq EXCEPT !.handler = "thumbnail",
                                  !.videoIDString = call[1], !.authorization = call[2]]
             g == ThumbAuthGate(call[1], call[2])
         IN  req' = [req EXCEPT ![p] =
                        IF g.status # 0 THEN respondWithError(r, g.status, g.msg)
                        ELSE [r EXCEPT !.pc = "t_intake", !.userID = g.userID]]
    /\ UNCHANGED <<db, bucket, disk, assets, probe>>

\* ThumbIntakeGate without the check of the media type against JPEG and PNG
ThumbIntakeGate_AnyType(part) ==
    LET parsed == ParseMediaType(part.contentType)
    IN  IF part.form \in {"malformed", "query"}
        THEN [status |-> StatusBadRequest, msg |-> "Error parsing form data", mediaType |-> ""]
        ELSE IF part.form # "present"
        THEN [status |-> StatusBadRequest, msg |-> "Unable to parse form file", mediaType |-> ""]
        ELSE IF part.contentType = ""
        THEN [status |-> StatusBadRequest, msg |-> "Missing Content-Type for thumbnail", mediaType |-> ""]
        ELSE IF parsed.err
        THEN [status |-> StatusBadRequest, msg |-> "Invalid Content-Type format", mediaType |-> parsed.mediaType]
        ELSE [status |-> 0, msg |-> "", mediaType |-> parsed.mediaType]

\* lines 234-265: the form, the "thumbnail" part, its Content-Type and type
ThumbIntakeGate(part) ==
    LET parsed == ParseMediaType(part.contentType)
    IN  IF part.form \in {"malformed", "query"}
        THEN [status |-> StatusBadRequest, msg |-> "Error parsing form data", mediaType |-> ""]
        ELSE IF part.form # "present"
        THEN [status |-> StatusBadRequest, msg |-> "Unable to parse form file", mediaType |-> ""]
        ELSE IF part.contentType = ""
        THEN [status |-> StatusBadRequest, msg |-> "Missing Content-Type for thumbnail", mediaType |-> ""]
        ELSE IF parsed.err
        THEN [status |-> StatusBadRequest, msg |-> "Invalid Content-Type format", mediaType |-> parsed.mediaType]
        ELSE IF parsed.mediaType # "image/jpeg" /\ parsed.mediaType # "image/png"
        THEN [status |-> StatusBadRequest, msg |-> "Unsupported file type. Only JPEG and PNG are allowed.", mediaType |-> parsed.mediaType]
        ELSE [status |-> 0, msg |-> "", mediaType |-> parsed.mediaType]

ThumbIntake(p) ==
    /\ req[p].pc = "t_intake"
    /\ \E part \in PartsOf(req[p].videoIDString, req[p].userID) :
         LET g == ThumbIntakeGate(part)
             form == ParseMultipartForm(disk, part, p)
             r == [req[p] EXCEPT !.refused = IF g.status # 0 THEN part ELSE NoPart,
                                 !.mediaType = g.mediaType,
                                 !.spool = form.spool]
         IN  /\ req' = [req EXCEPT ![p] =
                           IF g.status # 0 THEN respondWithError(r, g.status, g.msg)
                           ELSE [r EXCEPT !.pc = "t_create"]]
             /\ disk' = form.dir
    /\ UNCHANGED <<db, bucket, assets, probe>>

\* lines 267-294: the extension, the random name and os.Create, which makes
\* an empty file
ThumbCreate(p) ==
    /\ req[p].pc = "t_create"
    /\ \E outcome \in {"rand fails", "create fails", "ok"} :
         LET r == req[p]
             extension == Extension(r.mediaType)
             randomFileName == RawURLEncoding32(RandomByte(p))
             filePath == AssetPath(randomFileName, extension)
             r1 == [r EXCEPT !.randomBytes = RandomByte(p), !.filePath = filePath]
         IN  CASE outcome = "rand fails" ->
                    /\ req' = [req EXCEPT ![p] = respondWithError(r, StatusInternalServerError, "Failed to generate random filename")]
                    /\ assets' = assets
               [] outcome = "create fails" ->
                    /\ req' = [req EXCEPT ![p] = respondWithError(r1, StatusInternalServerError, "Failed to create file on disk")]
                    /\ assets' = assets
               [] outcome = "ok" ->
                    /\ req' = [req EXCEPT ![p] = [r1 EXCEPT !.pc = "t_copy", !.calls = @ \cup {"os.Create"}]]
                    /\ assets' = WriteFile(assets, filePath, "")
    /\ UNCHANGED <<db, bucket, disk, probe>>

\* lines 296-304: io.Copy into the file, which stays when the copy fails,
\* and the thumbnail URL
ThumbCopy(p) ==
    /\ req[p].pc = "t_copy"
    /\ \E outcome \in {"copy fails", "ok"} :
         LET r == req[p]
             extension == Extension(r.mediaType)
             randomFileName == RawURLEncoding32(r.randomBytes)
         IN  CASE outcome = "copy fails" ->
                    /\ req' = [req EXCEPT ![p] = respondWithError(r, StatusInternalServerError, "Failed to save file to disk")]
                    /\ assets' = WriteFile(assets, r.filePath, "truncated")
               [] outcome = "ok" ->
                    /\ req' = [req EXCEPT ![p] =
                                 [r EXCEPT !.pc = "t_get", !.calls = @ \cup {"io.Copy"},
                                           !.thumbnailURL = ThumbnailURL(randomFileName, extension)]]
                    /\ assets' = WriteFile(assets, r.filePath, "upload")
    /\ UNCHANGED <<db, bucket, disk, probe>>

\* lines 306-315: the record is fetched and its owner compared with the caller
ThumbOwnerGate(store, videoID, userID) ==
    LET got == GetVideo(store, videoID)
    IN  IF got.err
        THEN [status |-> StatusInternalServerError, msg |-> "Couldn't find video", video |-> got.video]
        ELSE IF got.video.UserID # userID
        THEN [status |-> StatusUnauthorized, msg |-> "Not authorized to update this video", video |-> got.video]
        ELSE [status |-> 0, msg |-> "", video |-> got.video]

ThumbGetVideo(p) ==
    /\ req[p].pc = "t_get"
    /\ LET r == req[p]
           g == ThumbOwnerGate(db, uuidParse(r.videoIDString).id, r.userID)
           r1 == [r EXCEPT !.video = g.video]
       IN  req' = [req EXCEPT ![p] =
                      IF g.status # 0 THEN respondWithError(r1, g.status, g.msg)
                      ELSE [r1 EXCEPT !.pc = "t_update"]]
    /\ UNCHANGED <<db, bucket, disk, assets, probe>>

\* ThumbUpdate removing the thumbnail file again when the update fails
ThumbUpdate_Rollback(p) ==
    /\ req[p].pc = "t_update"
    /\ \E outcome \in {"update fails", "ok"} :
         LET r == req[p]
             video == [r.video EXCEPT !.ThumbnailURL = r.thumbnailURL]
             r1 == [r EXCEPT !.video = video]
         IN  CASE outcome = "update fails" ->
                    /\ req' = [req EXCEPT ![p] =
                                 respondWithError([r1 EXCEPT !.calls = @ \cup {"UpdateVideo failed"}],
                                                  StatusInternalServerError, "Couldn't update video")]
                    /\ db' = db
                    /\ assets' = RemoveFile(assets, r.filePath)
               [] outcome = "ok" ->
                    /\ req' = [req EXCEPT ![p] =
                                 respondWithJSON([r1 EXCEPT !.calls = @ \cup {"UpdateVideo"}], StatusOK, video)]
                    /\ db' = UpdateVideo(db, video)
                    /\ assets' = assets
    /\ UNCHANGED <<bucket, disk, probe>>

\* lines 317-325: the URL is set on the copy just fetched and the whole copy
\* is written back
ThumbUpdate(p) ==
    /\ req[p].pc = "t_update"
    /\ \E outcome \in {"update fails", "ok"} :
         LET r == req[p]
             video == [r.video EXCEPT !.ThumbnailURL = r.thumbnailURL]
             r1 == [r EXCEPT !.video = video]
         IN  CASE outcome = "update fails" ->
                    /\ req' = [req EXCEPT ![p] =
                                 respondWithError([r1 EXCEPT !.calls = @ \cup {"UpdateVideo failed"}],
                                                  StatusInternalServerError, "Couldn't update video")]
                    /\ db' = db
               [] outcome = "ok" ->
                    /\ req' = [req EXCEPT ![p] =
                                 respondWithJSON([r1 EXCEPT !.calls = @ \cup {"UpdateVideo"}], StatusOK, video)]
                    /\ db' = UpdateVideo(db, video)
    /\ UNCHANGED <<bucket, disk, assets, probe>>

(***************************************************************************)
(* The server                                                              *)
(***************************************************************************)
NoProbe == [run |-> "ok", streams |-> <<>>, result |-> "unset"]

Init ==
    /\ db = [v \in {"v1"} |->
               [ID |-> v, UserID |-> "u1", VideoURL |-> Nil, ThumbnailURL |-> Nil]]
    /\ bucket = [k \in {} |-> [Body |-> "", ContentType |-> ""]]
    /\ disk = NoFiles
    /\ assets = NoFiles
    /\ req = [p \in Requests |-> IdleReq]
    /\ probe = NoProbe

Next ==
    \E p \in Requests :
        \/ VideoAuth(p)
        \/ VideoGetVideo(p)
        \/ VideoIntake(p)
        \/ VideoStage(p)
        \/ VideoCopy(p)
        \/ VideoProcess(p)
        \/ VideoProbe(p)
        \/ VideoPut(p)
        \/ VideoUpdate(p)
        \/ VideoRemoveProcessed(p)
        \/ VideoRemoveTemp(p)
        \/ ThumbAuth(p)
        \/ ThumbIntake(p)
        \/ ThumbCreate(p)
        \/ ThumbCopy(p)
        \/ ThumbGetVideo(p)
        \/ ThumbUpdate(p)
        \/ finishRequest(p)

Spec == Init /\ [][Next]_vars

(***************************************************************************)
(* getVideoAspectRatio on its own: every pair of dimensions in range       *)
(***************************************************************************)
Landmarks == {1000, 1080, 1920}
Dims == (-1 .. MaxDim) \cup Landmarks

ProbeInputs ==
    { <<>> }
    \cup { <<Stream(w, h)>> : w \in Dims, h \in Dims }
    \cup { <<Stream(w, h), Stream(16, 9)>> : w \in Dims, h \in Dims }

InitProbe ==
    /\ db = [v \in {} |-> NoVideo]
    /\ bucket = [k \in {} |-> [Body |-> "", ContentType |-> ""]]
    /\ disk = NoFiles
    /\ assets = NoFiles
    /\ req = [p \in Requests |-> IdleReq]
    /\ probe \in [run : {"ok", "exit", "garbage"}, streams : ProbeInputs, result : {"unset"}]

RunProbe ==
    /\ probe.result = "unset"
    /\ LET out == getVideoAspectRatio(probe.run, probe.streams)
       IN  probe' = [probe EXCEPT !.result = IF out.err THEN "error" ELSE out.aspectRatio]
    /\ UNCHANGED <<db, bucket, disk, assets, req>>

NextProbe == RunProbe

SpecProbe == InitProbe /\ [][NextProbe]_vars

(***************************************************************************)
(* Properties                                                              *)
(***************************************************************************)
\* the handler has returned and its deferred calls have run
Done(p) == req[p].pc \in {"finish", "done"}
\* the server has finished the request
Finished(p) == req[p].pc = "done"
\* the handler has written its response
Responded(p) == req[p].resp # NoResp

\* the calls that leave something behind: a file, an object, a record
Mutations == {"CreateTemp", "ffmpeg output", "PutObject", "os.Create", "io.Copy", "UpdateVideo"}
NoSideEffect(p) == req[p].calls \cap Mutations = {}

IDWellFormed(p) == ~uuidParse(req[p].videoIDString).err
TargetID(p) == uuidParse(req[p].videoIDString).id
BadCredential(p) ==
    \/ GetBearerToken(req[p].authorization).err
    \/ ValidateJWT(GetBearerToken(req[p].authorization).token).err
Caller(p) == ValidateJWT(GetBearerToken(req[p].authorization).token).userID

\* the request names a stored record that the authenticated caller does not own
CallerIsNotOwner(p) ==
    /\ req[p].pc # "idle"
    /\ IDWellFormed(p) /\ ~BadCredential(p)
    /\ TargetID(p) \in DOMAIN db
    /\ db[TargetID(p)].UserID # Caller(p)

\* the request names no stored record
TargetNotFound(p) ==
    /\ req[p].pc # "idle"
    /\ IDWellFormed(p) /\ ~BadCredential(p)
    /\ TargetID(p) \notin DOMAIN db

\* the handler got as far as fetching the record
ReachedLookup(p) ==
    \/ req[p].handler = "video"
    \/ req[p].handler = "thumbnail" /\ "io.Copy" \in req[p].calls

\* C1: a request whose caller does not own the target record is rejected and
\* has no side effect: no record update, no object put, no file written.
C1_NonOwnerNoSideEffect ==
    \A p \in Requests :
        Done(p) /\ CallerIsNotOwner(p)
            => req[p].resp.status >= 400 /\ NoSideEffect(p)

\* C2 as stated: every request whose credential is missing or invalid is
\* answered unauthorized, with no record update, put or file write.
C2_BadCredentialUnauthorized ==
    \A p \in Requests :
        req[p].pc # "idle" /\ BadCredential(p)
            => Done(p) /\ req[p].resp.status = 401 /\ NoSideEffect(p)

\* C2 amended: a request whose credential is missing or invalid is answered
\* at once, unauthorized when its videoID is well-formed and bad-request when
\* it is not, with no record update, put or file write.
C2_BadCredentialRejected ==
    \A p \in Requests :
        req[p].pc # "idle" /\ BadCredential(p)
            => /\ Done(p)
               /\ req[p].resp.status = IF IDWellFormed(p) THEN 401 ELSE 400
               /\ req[p].calls = {}

C2_Witness ==
    \E p, q \in Requests :
        /\ req[p].handler = "video" /\ req[q].handler = "thumbnail"
        /\ IDWellFormed(p) /\ IDWellFormed(q)
        /\ GetBearerToken(req[p].authorization).err
        /\ ~GetBearerToken(req[q].authorization).err /\ BadCredential(q)
        /\ req[p].resp.status = 401 /\ req[q].resp.status = 401

\* C3: once handlerUploadVideo has returned, neither its staging file nor
\* its ".processed" file exists.
C3_TempFilesRemoved ==
    \A p \in Requests :
        Done(p) /\ req[p].handler = "video"
            => /\ TempName(p) \notin DOMAIN disk
               /\ (TempName(p) \o ".processed") \notin DOMAIN disk

AllowedTypes(handler) ==
    IF handler = "video" THEN {"video/mp4"} ELSE {"image/jpeg", "image/png"}

\* the names a request can give to what it leaves: its files in the
\* temporary directory, its files under the assets directory, its keys in
\* the bucket, and the URLs of these
Classifications == {"landscape", "portrait", "other"}
Extensions == {".jpg", ".png"}
HandlerFileNames == [p \in Requests |-> {TempName(p), TempName(p) \o ".processed"}]
AssetFileNames ==
    [p \in Requests |-> {AssetPath(RawURLEncoding32(RandomByte(p)), ext) : ext \in Extensions}]
BucketKeyNames ==
    [p \in Requests |-> {FileKey(c, RandomByte(p)) : c \in Classifications}]
VideoURLs ==
    [p \in Requests |-> {VideoURL(k) : k \in BucketKeyNames[p]}]
ThumbnailURLs ==
    [p \in Requests |-> {ThumbnailURL(RawURLEncoding32(RandomByte(p)), ext) : ext \in Extensions}]

\* what a request has left
HandlerFiles(p) == HandlerFileNames[p] \cap DOMAIN disk
StagedFiles(p) == (HandlerFileNames[p] \cup {SpoolName(p)}) \cap DOMAIN disk
AssetFiles(p) == AssetFileNames[p] \cap DOMAIN assets
BucketKeys(p) == BucketKeyNames[p] \cap DOMAIN bucket
RecordsOf(p) ==
    { v \in DOMAIN db :
        db[v].VideoURL \in VideoURLs[p] \/ db[v].ThumbnailURL \in ThumbnailURLs[p] }

\* a part is let through only when its media type is allowed for the
\* endpoint
OnlyAllowedPass(p) ==
    /\ req[p].pc \notin {"idle", "v_get", "v_intake", "t_intake", "finish", "done"}
          => req[p].mediaType \in AllowedTypes(req[p].handler)
    /\ req[p].calls # {}
          => req[p].mediaType \in AllowedTypes(req[p].handler)

\* the names as the specification words them: the asset file of a request
\* by extension, its key by classification, and the URLs of the two
SpecAssetName ==
    [p \in Requests |->
        [ext \in Extensions |-> "assets/" \o RawURLEncoding32(RandomByte(p)) \o ext]]
SpecThumbnailURL ==
    [p \in Requests |->
        [ext \in Extensions |-> "http://localhost:8091/" \o SpecAssetName[p][ext]]]
SpecKey ==
    [p \in Requests |->
        [c \in Classifications |-> c \o "/" \o Hex16(RandomByte(p)) \o ".mp4"]]
SpecVideoURL ==
    [p \in Requests |->
        [c \in Classifications |->
            "https://tubely-bucket.s3.us-east-2.amazonaws.com/" \o SpecKey[p][c]]]

\* an accepted thumbnail is written under a name ending .jpg for image/jpeg
\* and .png for image/png
ThumbnailExtension(p) ==
    req[p].handler = "thumbnail" /\ "os.Create" \in req[p].calls
        => /\ req[p].filePath \in DOMAIN assets
           /\ \/ req[p].mediaType = "image/jpeg" /\ req[p].filePath = SpecAssetName[p][".jpg"]
              \/ req[p].mediaType = "image/png" /\ req[p].filePath = SpecAssetName[p][".png"]

\* C4 as stated: the intake lets a part through only when its media type is
\* allowed for the endpoint; a part it turns down is answered bad-request
\* and nothing of the request is staged on disk, stored in the bucket or
\* under the assets directory, or written to a record; an accepted
\* thumbnail is written under a name ending .jpg for image/jpeg and .png for
\* image/png.
C4_IntakeNothingStaged ==
    \A p \in Requests :
        /\ req[p].refused # NoPart
              => /\ Done(p) /\ req[p].resp.status = 400 /\ req[p].calls = {}
                 /\ StagedFiles(p) = {}
                 /\ AssetFiles(p) = {} /\ BucketKeys(p) = {} /\ RecordsOf(p) = {}
        /\ OnlyAllowedPass(p)
        /\ ThumbnailExtension(p)

\* C4 amended: as C4, but for the multipart parser's own file: the handler
\* stages nothing of a part it turns down, nothing is stored or recorded,
\* and a file too large for the parser's memory is in the parser's
\* "multipart-*" file while the bad-request answer is written, until the
\* server has finished the request, and not after.
C4_Intake ==
    \A p \in Requests :
        /\ req[p].refused # NoPart
              => /\ Done(p) /\ req[p].resp.status = 400 /\ req[p].calls = {}
                 /\ HandlerFiles(p) = {}
                 /\ AssetFiles(p) = {} /\ BucketKeys(p) = {} /\ RecordsOf(p) = {}
                 /\ SpoolName(p) \in DOMAIN disk
                       <=> req[p].refused.large /\ req[p].refused.form # "malformed" /\ ~Finished(p)
        /\ OnlyAllowedPass(p)
        /\ ThumbnailExtension(p)

C4_Witness ==
    \E p, q \in Requests :
        /\ req[p].handler = "thumbnail" /\ Finished(p)
        /\ req[p].refused = [form |-> "present", contentType |-> "image/gif", large |-> TRUE]
        /\ req[p].resp.status = 400
        /\ req[q].handler = "thumbnail" /\ req[q].mediaType = "image/png"
        /\ req[q].filePath \in DOMAIN assets

\* the classification as the specification words it, in exact arithmetic:
\* w/h > 1, multiplied through by h*h, and -1/100 < w/h - a/b < 1/100,
\* multiplied through by 100*b*h (which turns the inequalities when h < 0)
SpecRatioGtOne(w, h) == w * h > h * h
SpecRatioNear(w, h, a, b) ==
    LET d == 100 * (b * w - a * h)
    IN  IF h > 0 THEN -(b * h) < d /\ d < b * h
                 ELSE b * h < d /\ d < -(b * h)
SpecClassification(streams) ==
    CASE Len(streams) = 0 -> "other"
      [] Len(streams) > 0 /\ streams[1].Height = 0 -> "other"
      [] OTHER ->
           LET w == streams[1].Width
               h == streams[1].Height
           IN  IF SpecRatioGtOne(w, h) /\ SpecRatioNear(w, h, 16, 9) THEN "landscape"
               ELSE IF ~SpecRatioGtOne(w, h) /\ SpecRatioNear(w, h, 9, 16) THEN "portrait"
               ELSE "other"

\* C5: getVideoAspectRatio classifies the first stream: other without a
\* stream, landscape iff ratio > 1 and within 0.01 of 16/9, portrait iff
\* ratio <= 1 and within 0.01 of 9/16, other otherwise; 1920x1080 is
\* landscape, 1080x1920 portrait, 1000x1000 other.
C5_Classification ==
    probe.result # "unset" /\ probe.run = "ok"
        => /\ probe.result = SpecClassification(probe.streams)
           /\ probe.streams = <<Stream(1920, 1080)>> => probe.result = "landscape"
           /\ probe.streams = <<Stream(1080, 1920)>> => probe.result = "portrait"
           /\ probe.streams = <<Stream(1000, 1000)>> => probe.result = "other"
           /\ probe.streams = <<>> => probe.result = "other"

C5_Witness ==
    /\ probe.run = "ok"
    /\ probe.streams = <<Stream(16, 9), Stream(16, 9)>>
    /\ probe.result = "landscape"

\* C6: the gate answers a missing or invalid credential with unauthorized
\* (401), a record that is not found with not-found (404) and a caller who
\* is not the owner with forbidden (403).
C6_DistinctOutcomes ==
    \A p \in Requests :
        Done(p) /\ IDWellFormed(p)
            => /\ BadCredential(p) => req[p].resp.status = 401
               /\ ReachedLookup(p) /\ TargetNotFound(p) => req[p].resp.status = 404
               /\ ReachedLookup(p) /\ CallerIsNotOwner(p) => req[p].resp.status = 403

\* C7: when the put to the object store fails, handlerUploadVideo answers
\* internal-error and never calls the record store's update: no record
\* carries the URL of the object that was not stored.
C7_PutFailureNoUpdate ==
    \A p \in Requests :
        "PutObject failed" \in req[p].calls
            => /\ Responded(p)
               /\ req[p].resp.status = 500
               /\ "UpdateVideo" \notin req[p].calls
               /\ "UpdateVideo failed" \notin req[p].calls
               /\ \A v \in DOMAIN db : db[v].VideoURL # VideoURL(req[p].fileKey)

C7_Witness ==
    \E p \in Requests :
        /\ Done(p) /\ "PutObject failed" \in req[p].calls
        /\ req[p].resp.msg = "Failed to upload video to S3"

\* C8: when the artifact was stored and the record update then fails, the
\* answer is internal-error, no record was written and none refers to the
\* artifact, and the artifact is still in the bucket or assets directory.
C8_UpdateFailureLeavesOrphan ==
    \A p \in Requests :
        "UpdateVideo failed" \in req[p].calls
            => /\ Responded(p)
               /\ req[p].resp.status = 500
               /\ "UpdateVideo" \notin req[p].calls
               /\ req[p].handler = "video"
                     => /\ req[p].fileKey \in DOMAIN bucket
                        /\ bucket[req[p].fileKey].Body = "faststart"
                        /\ \A v \in DOMAIN db : db[v].VideoURL # VideoURL(req[p].fileKey)
               /\ req[p].handler = "thumbnail"
                     => /\ req[p].filePath \in DOMAIN assets
                        /\ assets[req[p].filePath] = "upload"
                        /\ \A v \in DOMAIN db : db[v].ThumbnailURL # req[p].thumbnailURL

C8_Witness ==
    \E p, q \in Requests :
        /\ req[p].handler = "video" /\ "UpdateVideo failed" \in req[p].calls
        /\ req[q].handler = "thumbnail" /\ "UpdateVideo failed" \in req[q].calls

\* C9: every video_url in the record store is the URL, built from the
\* configured bucket and region, of a key "<classification>/<hex>.mp4" that
\* a request put the repackaged file under before it updated the record,
\* the classification being that request's probe result; every
\* thumbnail_url names a file written in full under the assets directory.
C9_ReferentialIntegrity ==
    /\ \A p \in Requests :
          "UpdateVideo" \in req[p].calls
              => IF req[p].handler = "video"
                 THEN "PutObject" \in req[p].calls
                 ELSE "io.Copy" \in req[p].calls
    /\ \A v \in DOMAIN db :
          /\ db[v].VideoURL # Nil
                => \E p \in Requests, c \in Classifications :
                      LET key == SpecKey[p][c]
                      IN  /\ req[p].handler = "video"
                          /\ "PutObject" \in req[p].calls
                          /\ req[p].aspectRatio = c
                          /\ db[v].VideoURL = SpecVideoURL[p][c]
                          /\ key \in DOMAIN bucket
                          /\ bucket[key] = [Body |-> "faststart", ContentType |-> "video/mp4"]
          /\ db[v].ThumbnailURL # Nil
                => \E p \in Requests, ext \in Extensions :
                      LET name == SpecAssetName[p][ext]
                      IN  /\ req[p].handler = "thumbnail"
                          /\ "io.Copy" \in req[p].calls
                          /\ db[v].ThumbnailURL = SpecThumbnailURL[p][ext]
                          /\ name \in DOMAIN assets
                          /\ assets[name] = "upload"

C9_Witness ==
    \E v \in DOMAIN db : db[v].VideoURL # Nil /\ db[v].ThumbnailURL # Nil

\* C10: when a video upload and a thumbnail upload of the same record both
\* succeed, however they overlap, the stored record carries the video_url of
\* the one and the thumbnail_url of the other.
C10_NoLostUpdate ==
    \A p, q \in Requests :
        /\ req[p].handler = "video" /\ req[q].handler = "thumbnail"
        /\ Done(p) /\ Done(q)
        /\ req[p].resp.status = 200 /\ req[q].resp.status = 200
        /\ TargetID(p) = TargetID(q)
        /\ \A o \in Requests \ {p, q} : "UpdateVideo" \notin req[o].calls
        => /\ db[TargetID(p)].VideoURL = req[p].resp.body.VideoURL
           /\ db[TargetID(p)].ThumbnailURL = req[q].resp.body.ThumbnailURL

====
